---- MODULE Spec2Model ----
(***************************************************************************)
(* Model of the dspy-intellisense extension: the debounced introspection   *)
(* scheduler, the out-of-process introspector invocation, the result cache *)
(* with its update event, and the editor requests that read the cache.     *)
(*                                                                         *)
(* Time is discrete: the quiet period of DEBOUNCE_MS milliseconds is       *)
(* TicksPerQuiet ticks.  A timer runs at the first tick instant at or      *)
(* after its deadline, and time does not advance past a timer that is due  *)
(* (the event loop runs due timers before it sleeps again).                *)
(***************************************************************************)
EXTENDS Integers, Sequences, FiniteSets, TLC

\* ------------------------------------------------------------------ bounds
MaxEvents == 1        \* external events after activation: a document opened, saved,
                      \* changed or closed, an editor request served
MaxVersion == 2       \* distinct contents a file takes on disk
TicksPerQuiet == 2    \* clock resolution: ticks in one quiet period
MaxCommas == 3        \* commas typed in the argument list of a call
MaxRepeat == 2        \* occurrences of one attribute access on a line
MaxBlank == 1         \* blank lines between the first and the last line of a text

\* ------------------------------------------------------- program constants
DEBOUNCE_MS == 250    \* setTimeout(() => introspectDocument(doc), 250)
REFRESH_MS == 300     \* setTimeout(() => refreshEditor(e), 300)

\* the ticks a delay of ms milliseconds takes, rounded up
Ticks(ms) == (ms * TicksPerQuiet + DEBOUNCE_MS - 1) \div DEBOUNCE_MS
Quiet == Ticks(DEBOUNCE_MS)
Nudge == Ticks(REFRESH_MS)

\* --------------------------------------------------------------- documents
PyDocs == {"a.py", "b.py"}
OutputDoc == "output"          \* the document behind the output channel
Docs == PyDocs \cup {OutputDoc}
EditorDoc == "a.py"            \* the document a visible editor shows, when there is one
NoEditor == "none"             \* vscode.window.visibleTextEditors is empty
languageId(d) == IF d \in PyDocs THEN "python" ELSE "Log"

Null == "null"
PythonPaths == {"python3"}     \* what getPythonPath() resolves to
Absent == [absent |-> TRUE]    \* Map.get() of a missing key: undefined

\* ------------------------------------------------------ typed result model
RequiredKeys == {"file", "signatures", "modules", "predictions"}
Names == <<"S", "Q", "T", "U">>
NameOf(v) == Names[((v - 1) % Len(Names)) + 1]

\* What the introspector prints for document d when its file has content v.
Introspection(d, v) ==
  [file |-> d,
   signatures |-> [n \in {NameOf(v)} |->
                     [name |-> n, inputs |-> <<"question">>, outputs |-> <<"answer", NameOf(v)>>]],
   modules |-> [n \in {"predict"} |-> [name |-> n, signature |-> NameOf(v), line |-> v, column |-> 0]],
   predictions |-> [n \in {"r", NameOf(v)} |-> [name |-> n, signature |-> NameOf(v), line |-> v + 1, column |-> 0]]]

\* The ways one run of the process can end.
\*   exit: "ok", or the reason execFileAsync rejects with (the 10 s timeout is
\*         one of them: it may end a run at any moment)
\*   json: stdout is JSON text;  keys: the top-level keys of the JSON object
\*         (a JSON value that is no object behaves like an object without keys)
\* stderr is only logged and is left out.
KeySets == {RequiredKeys, {}} \cup {RequiredKeys \ {k} : k \in RequiredKeys}
ProcessOutcomes ==
  [exit : {"NotFound", "Timeout", "NonZeroExit"}, json : {FALSE}, keys : {{}}]
    \cup [exit : {"ok"}, json : {FALSE}, keys : {{}}]
    \cup [exit : {"ok"}, json : {TRUE}, keys : KeySets]

\* JSON.parse(stdout) of an object that carries the keys ks of the full result.
JSONparse(full, ks) == [k \in ks |-> full[k]]

\* Object.keys(result.signatures / .modules / .predictions) throws a TypeError
\* when the property is undefined.
CountsThrow(result) == ~({"signatures", "modules", "predictions"} \subseteq DOMAIN result)

\* --------------------------------------------------------------- the cache
\* mutant: set() merges the new maps into the entry it finds
CacheSet_Merges(c, d, result) ==
  [c EXCEPT ![d] =
     IF c[d] = Absent THEN result
     ELSE [k \in DOMAIN result |->
             IF k \in {"signatures", "modules", "predictions"} /\ k \in DOMAIN c[d]
             THEN result[k] @@ c[d][k]
             ELSE result[k]]]
\* mutant: set() does not overwrite an entry
CacheSet_KeepsFirst(c, d, result) == IF c[d] = Absent THEN [c EXCEPT ![d] = result] ELSE c
CacheSet(c, d, result) == [c EXCEPT ![d] = result]
CacheDelete(c, d) == [c EXCEPT ![d] = Absent]
CacheGet(c, d) == c[d]

\* The part of introspectDocument that runs when the process has ended:
\* the cache after it, whether the update event fired, the cache entry a
\* listener reads during the event, and whether an exception escaped.
\* mutant: the catch block does not delete the entry
Failed_KeepsEntry(c, d) == [cache |-> c, fired |-> FALSE, seen |-> Absent, thrown |-> FALSE]
Failed(c, d) == [cache |-> CacheDelete(c, d), fired |-> FALSE, seen |-> Absent, thrown |-> FALSE]
\* mutant: the update event fires before cache.set
Settle_FiresBeforeSet(c, d, full, o) ==
  IF o.exit # "ok" \/ ~o.json
  THEN Failed(c, d)
  ELSE LET result == JSONparse(full, o.keys)
           c1 == CacheSet(c, d, result)
       IN IF CountsThrow(result)
          THEN Failed(c1, d)
          ELSE [cache |-> c1, fired |-> TRUE, seen |-> CacheGet(c, d), thrown |-> FALSE]
Settle(c, d, full, o) ==
  IF o.exit # "ok" \/ ~o.json
  THEN Failed(c, d)
  ELSE LET result == JSONparse(full, o.keys)
           c1 == CacheSet(c, d, result)
       IN IF CountsThrow(result)
          THEN Failed(c1, d)
          ELSE [cache |-> c1, fired |-> TRUE, seen |-> CacheGet(c1, d), thrown |-> FALSE]

\* ------------------------------------------------------------------ timers
\* mutant: the pending timer is not cancelled
ClearTimeout_Forgotten(ts, p) == ts
\* clearTimeout(existing): the handle the map holds is the newest timer of the
\* document; clearing a timer that already ran does nothing.
ClearTimeout(ts, p) == IF p = "live" /\ Len(ts) > 0 THEN SubSeq(ts, 1, Len(ts) - 1) ELSE ts
\* mutant: a document that has a handle in the map gets no new timer
Reschedule_OnlyFirst(ts, p) == IF p = "unset" THEN Append(ts, Quiet) ELSE ts
\* mutant: a call that finds a live timer clears it and sets none in its place
Reschedule_CancelOnly(ts, p) ==
  IF p = "live" /\ Len(ts) > 0 THEN ClearTimeout(ts, p) ELSE Append(ts, Quiet)
\* scheduleIntrospect on the timers of one document.
Reschedule(ts, p) == Append(ClearTimeout(ts, p), Quiet)

RemoveAt(s, i) == SubSeq(s, 1, i - 1) \o SubSeq(s, i + 1, Len(s))
\* mutant: the timer is periodic, it is armed again when it has run
RunOnce_Rearms(ts, i) == [ts EXCEPT ![i] = Quiet]
\* setTimeout: a timer that has run is gone.
RunOnce(ts, i) == RemoveAt(ts, i)
Min(a, b) == IF a < b THEN a ELSE b
Max(a, b) == IF a > b THEN a ELSE b

\* ---------------------------------------------------- text of a document
\* A line is a sequence of characters; columns count from 0 as in the editor.
\* Names (identifiers, keys of the result maps) are sequences of characters.
NonWordChars == {".", "(", ")", ",", "=", " ", "[", "]", ":"}
IsWordChar(ch) == ch \notin NonWordChars       \* \w
IsSpace(ch) == ch = " "                        \* \s
NoName == <<>>                                 \* no match: undefined

At(s, i) == s[i + 1]                           \* s.charAt(i)
Slice(s, a, b) == SubSeq(s, a + 1, b)          \* s.slice(a, b)

\* where the run of word characters that ends before column e starts
WordStart(s, e) ==
  CHOOSE a \in 0..e : /\ \A k \in a..(e - 1) : IsWordChar(At(s, k))
                      /\ (a = 0 \/ ~IsWordChar(At(s, a - 1)))
\* where the run of word characters that starts at column a ends
WordEnd(s, a) ==
  CHOOSE b \in a..Len(s) : /\ \A k \in a..(b - 1) : IsWordChar(At(s, k))
                           /\ (b = Len(s) \/ ~IsWordChar(At(s, b)))
\* where the run of spaces that ends before column e starts
SpacesStart(s, e) ==
  CHOOSE a \in 0..e : /\ \A k \in a..(e - 1) : IsSpace(At(s, k))
                      /\ (a = 0 \/ ~IsSpace(At(s, a - 1)))
\* where the run of spaces that starts at column a ends
SpacesEnd(s, a) ==
  CHOOSE b \in a..Len(s) : /\ \A k \in a..(b - 1) : IsSpace(At(s, k))
                           /\ (b = Len(s) \/ ~IsSpace(At(s, b)))
\* s.lastIndexOf of a character of C, -1 when there is none
LastIndexOf(s, C) ==
  IF \E k \in 0..(Len(s) - 1) : At(s, k) \in C
  THEN CHOOSE k \in 0..(Len(s) - 1) :
         At(s, k) \in C /\ \A j \in (k + 1)..(Len(s) - 1) : At(s, j) \notin C
  ELSE -1

\* doc.getWordRangeAtPosition(position): the word the column is in or touches.
NoRange == [start |-> -1, end |-> -1]
getWordRangeAtPosition(s, ch) ==
  LET a == WordStart(s, ch)
      b == WordEnd(s, ch)
  IN IF a = b THEN NoRange ELSE [start |-> a, end |-> b]

\* /(\w+)\.(\w*)$/.exec(s)[1]: the identifier before the dot that precedes the
\* trailing run of word characters.
attrAccessMatch(s) ==
  LET j == WordStart(s, Len(s))
  IN IF j >= 2 /\ At(s, j - 1) = "." /\ IsWordChar(At(s, j - 2))
     THEN Slice(s, WordStart(s, j - 1), j - 1)
     ELSE NoName

\* the identifier that ends, spaces apart, before column k
NameBefore(s, k) ==
  LET e == SpacesStart(s, k)
  IN Slice(s, WordStart(s, e), e)

\* /(\w+)\s*\([^()]*$/.exec(s)[1]: the identifier before a "(" that no
\* parenthesis, opening or closing, follows.
callMatch(s) ==
  LET k == LastIndexOf(s, {"(", ")"})
  IN IF k < 0 \/ At(s, k) # "(" THEN NoName ELSE NameBefore(s, k)

\* ------------------------------------------- the cached result, as queried
\* obj[key] on an object JSON.parse built: its own property, else the member
\* it inherits from Object.prototype, else undefined.
Undefined == [undefined |-> TRUE]
Inherited == [inherited |-> TRUE]        \* a function of Object.prototype: truthy, no fields
constructor == <<"c", "o", "n", "s", "t", "r", "u", "c", "t", "o", "r">>
ObjectPrototype == {constructor}
Get(obj, key) ==
  IF key \in DOMAIN obj THEN obj[key]
  ELSE IF key \in ObjectPrototype THEN Inherited
  ELSE Undefined
Truthy(x) == x # Undefined
\* info.signatures[x.signature] for a module or prediction x
SignatureOf(info, x) ==
  IF x = Inherited THEN Undefined ELSE Get(info.signatures, x.signature)
\* f.annotation ?? "Any"
Annotation(f) ==
  IF "annotation" \in DOMAIN f /\ f.annotation # Null THEN f.annotation ELSE "Any"
\* sig.inputs.find((f) => f.name === word), and the same on sig.outputs
Find(fields, word) ==
  IF \E i \in 1..Len(fields) : fields[i].name = word
  THEN fields[CHOOSE i \in 1..Len(fields) :
                fields[i].name = word /\ \A j \in 1..(i - 1) : fields[j].name # word]
  ELSE Undefined

\* The result the requests are answered from: signature S with two input and
\* two output fields, Z without input fields; p, h, r are predictions and
\* m, r, z modules; g and d refer to a signature the map lacks, u and e to a
\* name the map lacks and Object.prototype has.
Ghost == <<"G">>
QueryResult ==
  [file |-> "a.py",
   signatures |->
     (<<"S">> :> [name |-> <<"S">>,
                  inputs |-> << [name |-> <<"q">>, kind |-> "input", annotation |-> "str"],
                                [name |-> <<"c">>, kind |-> "input"] >>,
                  outputs |-> << [name |-> <<"f">>, kind |-> "output", annotation |-> "str"],
                                 [name |-> <<"h">>, kind |-> "output", annotation |-> Null] >>]
      @@ <<"Z">> :> [name |-> <<"Z">>,
                     inputs |-> << >>,
                     outputs |-> << [name |-> <<"f">>, kind |-> "output"] >>]),
   modules |->
     (<<"m">> :> [name |-> <<"m">>, signature |-> <<"S">>, line |-> 1, column |-> 0]
      @@ <<"r">> :> [name |-> <<"r">>, signature |-> <<"S">>, line |-> 2, column |-> 0]
      @@ <<"z">> :> [name |-> <<"z">>, signature |-> <<"Z">>, line |-> 3, column |-> 0]
      @@ <<"d">> :> [name |-> <<"d">>, signature |-> Ghost, line |-> 4, column |-> 0]
      @@ <<"e">> :> [name |-> <<"e">>, signature |-> constructor, line |-> 5, column |-> 0]),
   predictions |->
     (<<"p">> :> [name |-> <<"p">>, signature |-> <<"S">>, line |-> 6, column |-> 0]
      @@ <<"h">> :> [name |-> <<"h">>, signature |-> <<"S">>, line |-> 7, column |-> 0]
      @@ <<"r">> :> [name |-> <<"r">>, signature |-> <<"S">>, line |-> 8, column |-> 0]
      @@ <<"g">> :> [name |-> <<"g">>, signature |-> Ghost, line |-> 9, column |-> 0]
      @@ <<"u">> :> [name |-> <<"u">>, signature |-> constructor, line |-> 10, column |-> 0])]
\* the same result with other coordinates reported for the modules and predictions
Relocated ==
  [QueryResult EXCEPT
     !.modules = [k \in DOMAIN QueryResult.modules |->
                    [QueryResult.modules[k] EXCEPT !.line = 0, !.column = 0]],
     !.predictions = [k \in DOMAIN QueryResult.predictions |->
                        [QueryResult.predictions[k] EXCEPT !.line = 0, !.column = 0]]]
QueryResults == {QueryResult, Relocated}

\* ---------------------------------------------------------------- hover
lookbackLines == 5         \* const lookbackLines = 5
rightOfWordChars == 50     \* range.end.translate(0, 50)

Nothing == [result |-> "nothing"]          \* the provider returns undefined
TypeError == [result |-> "TypeError"]      \* the provider throws
FieldList(fields) == [i \in 1..Len(fields) |-> [name |-> fields[i].name, annotation |-> Annotation(fields[i])]]

\* the callee of the call a keyword argument at column wordStart of line pl is in:
\* the identifier before the last "(" of the nearest line that has one
calleeOn(segment) ==
  LET parenIdx == LastIndexOf(segment, {"("})
  IN IF parenIdx < 0 THEN NoName ELSE NameBefore(segment, parenIdx)
kwargCallee(lines, pl, wordStart) ==
  LET segment(i) == IF i = pl THEN Slice(lines[i + 1], 0, wordStart) ELSE lines[i + 1]
      hits == {i \in Max(0, pl - lookbackLines)..pl : calleeOn(segment(i)) # NoName}
  IN IF hits = {} THEN NoName
     ELSE calleeOn(segment(CHOOSE i \in hits : \A j \in hits : j <= i))

\* new RegExp(`(\w+)\s*=\s*${calleeName}\s*\($`).exec(s)[1]
lhsMatch(s, calleeName) ==
  IF Len(s) = 0 \/ At(s, Len(s) - 1) # "(" THEN NoName
  ELSE LET e1 == SpacesStart(s, Len(s) - 1)
           a1 == e1 - Len(calleeName)
       IN IF a1 < 0 \/ Slice(s, a1, e1) # calleeName THEN NoName
          ELSE LET e2 == SpacesStart(s, a1)
               IN IF e2 = 0 \/ At(s, e2 - 1) # "=" THEN NoName
                  ELSE NameBefore(s, e2 - 1)

ParameterHover(field, range) ==
  [result |-> "hover", kind |-> "parameter", name |-> field.name,
   annotation |-> Annotation(field), range |-> range]

\* hover.ts 83-195: what the keyword-argument block returns; Undefined when
\* control falls through to the attribute block.
kwargHover(info, lines, pos, range, word) ==
  LET line == lines[pos.line + 1]
      rightOfWord == Slice(line, range.end, Min(Len(line), range.end + rightOfWordChars))
      eq == SpacesEnd(rightOfWord, 0)
      isKwArgName == eq < Len(rightOfWord) /\ At(rightOfWord, eq) = "="
      calleeName == kwargCallee(lines, pos.line, range.start)
  IN IF ~isKwArgName \/ calleeName = NoName THEN Undefined
     ELSE LET modInfo == Get(info.modules, calleeName)
          IN IF Truthy(modInfo)
             THEN LET sig == SignatureOf(info, modInfo)
                  IN IF ~Truthy(sig) THEN Undefined
                     ELSE IF sig = Inherited THEN TypeError
                     ELSE IF Truthy(Find(sig.inputs, word))
                          THEN ParameterHover(Find(sig.inputs, word), range)
                          ELSE Undefined
             ELSE LET lhsVar == lhsMatch(Slice(line, 0, range.start), calleeName)
                      predInfo == IF lhsVar = NoName THEN Undefined
                                  ELSE Get(info.predictions, lhsVar)
                      sig == IF Truthy(predInfo) THEN SignatureOf(info, predInfo) ELSE Undefined
                  IN IF ~Truthy(sig) THEN Undefined
                     ELSE IF sig = Inherited THEN TypeError
                     ELSE IF Truthy(Find(sig.inputs, word))
                          THEN ParameterHover(Find(sig.inputs, word), range)
                          ELSE Undefined

\* mutant: the attribute block looks the word up among the input fields too
attrHover_AnyField(info, lines, pos, range, word) ==
  LET beforeCursor == Slice(lines[pos.line + 1], 0, pos.character)
      varName == attrAccessMatch(beforeCursor)
      predVar == IF varName = NoName THEN Undefined ELSE Get(info.predictions, varName)
      sig == IF Truthy(predVar) THEN SignatureOf(info, predVar) ELSE Undefined
  IN IF ~Truthy(sig) THEN Nothing
     ELSE IF sig = Inherited THEN TypeError
     ELSE IF Truthy(Find(sig.inputs \o sig.outputs, word))
          THEN [result |-> "hover", kind |-> "property", name |-> word,
                annotation |-> Annotation(Find(sig.inputs \o sig.outputs, word)), range |-> range]
          ELSE Nothing
\* mutant: a name that is also a module is not taken for a prediction
attrHover_NotForModules(info, lines, pos, range, word) ==
  LET beforeCursor == Slice(lines[pos.line + 1], 0, pos.character)
      varName == attrAccessMatch(beforeCursor)
      predVar == IF varName = NoName \/ Truthy(Get(info.modules, varName)) THEN Undefined
                 ELSE Get(info.predictions, varName)
      sig == IF Truthy(predVar) THEN SignatureOf(info, predVar) ELSE Undefined
  IN IF ~Truthy(sig) THEN Nothing
     ELSE IF sig = Inherited THEN TypeError
     ELSE IF Truthy(Find(sig.outputs, word))
          THEN [result |-> "hover", kind |-> "property", name |-> word,
                annotation |-> Annotation(Find(sig.outputs, word)), range |-> range]
          ELSE Nothing
\* hover.ts 197-223: the attribute block
attrHover(info, lines, pos, range, word) ==
  LET beforeCursor == Slice(lines[pos.line + 1], 0, pos.character)
      varName == attrAccessMatch(beforeCursor)
      predVar == IF varName = NoName THEN Undefined ELSE Get(info.predictions, varName)
      sig == IF Truthy(predVar) THEN SignatureOf(info, predVar) ELSE Undefined
  IN IF ~Truthy(sig) THEN Nothing
     ELSE IF sig = Inherited THEN TypeError
     ELSE IF Truthy(Find(sig.outputs, word))
          THEN [result |-> "hover", kind |-> "property", name |-> word,
                annotation |-> Annotation(Find(sig.outputs, word)), range |-> range]
          ELSE Nothing

\* hover.ts 11-227: what provideHover returns for the cache entry info
HoverOf(info, lines, pos) ==
  IF info = Absent THEN Nothing
  ELSE
    LET line == lines[pos.line + 1]
        range == getWordRangeAtPosition(line, pos.character)
        word == Slice(line, range.start, range.end)
        pred == Get(info.predictions, word)
        mod == Get(info.modules, word)
    IN IF range = NoRange THEN Nothing
       ELSE IF Truthy(pred)
       THEN LET sig == SignatureOf(info, pred)
            IN IF ~Truthy(sig) THEN Nothing
               ELSE IF sig = Inherited THEN TypeError
               ELSE [result |-> "hover", kind |-> "prediction", signature |-> sig.name,
                     fields |-> FieldList(sig.outputs), range |-> range]
       ELSE IF Truthy(mod)
       THEN LET sig == SignatureOf(info, mod)
            IN IF ~Truthy(sig) THEN Nothing
               ELSE IF sig = Inherited THEN TypeError
               ELSE [result |-> "hover", kind |-> "module", name |-> word, signature |-> sig.name,
                     fields |-> FieldList(sig.inputs), range |-> range]
       ELSE LET kw == kwargHover(info, lines, pos, range, word)
            IN IF kw # Undefined THEN kw ELSE attrHover(info, lines, pos, range, word)

\* ----------------------------------------------------------- completion
\* mutant: the items come in reverse order
Items_Reversed(fields, suffix) ==
  [i \in 1..Len(fields) |->
     [label |-> fields[Len(fields) + 1 - i].name \o suffix,
      detail |-> [name |-> fields[Len(fields) + 1 - i].name,
                  annotation |-> Annotation(fields[Len(fields) + 1 - i])]]]
Items(fields, suffix) ==
  [i \in 1..Len(fields) |->
     [label |-> fields[i].name \o suffix,
      detail |-> [name |-> fields[i].name, annotation |-> Annotation(fields[i])]]]

\* part_002 13-109: what provideCompletionItems returns
CompletionOf(info, lines, pos) ==
  IF info = Absent THEN Nothing
  ELSE
    LET upToCursor == Slice(lines[pos.line + 1], 0, pos.character)
        varName == attrAccessMatch(upToCursor)
        pred == IF varName = NoName THEN Undefined ELSE Get(info.predictions, varName)
        calleeName == callMatch(upToCursor)
        mod == IF calleeName = NoName THEN Undefined ELSE Get(info.modules, calleeName)
    IN IF Truthy(pred)
       THEN LET sig == SignatureOf(info, pred)
            IN IF ~Truthy(sig) THEN Nothing
               ELSE IF sig = Inherited THEN TypeError
               ELSE [result |-> "items", kind |-> "Property", items |-> Items(sig.outputs, <<>>)]
       ELSE IF ~Truthy(mod) THEN Nothing
       ELSE LET sig == SignatureOf(info, mod)
            IN IF ~Truthy(sig) THEN Nothing
               ELSE IF sig = Inherited THEN TypeError
               ELSE [result |-> "items", kind |-> "Field", items |-> Items(sig.inputs, <<"=">>)]

\* ------------------------------------------------------- signature help
\* (paramsText.match(/,/g) || []).length
commaCount(paramsText) == Cardinality({k \in 1..Len(paramsText) : paramsText[k] = ","})
\* Math.min(commaCount, sig.inputs.length - 1)
activeParameter(commas, inputCount) == Min(commas, inputCount - 1)

\* part_001 13-79: what provideSignatureHelp returns
SignatureHelpOf(info, lines, pos) ==
  IF info = Absent THEN Nothing
  ELSE
    LET upToCursor == Slice(lines[pos.line + 1], 0, pos.character)
        calleeName == callMatch(upToCursor)
        mod == IF calleeName = NoName THEN Undefined ELSE Get(info.modules, calleeName)
        sig == IF Truthy(mod) THEN SignatureOf(info, mod) ELSE Undefined
        paramsText == Slice(upToCursor, LastIndexOf(upToCursor, {"("}) + 1, Len(upToCursor))
    IN IF ~Truthy(sig) THEN Nothing
       ELSE IF sig = Inherited THEN TypeError
       ELSE [result |-> "signatureHelp", callee |-> calleeName, signature |-> sig.name,
             parameters |-> FieldList(sig.inputs),
             activeParameter |-> activeParameter(commaCount(paramsText), Len(sig.inputs))]

\* ----------------------------------------------------------- definition
StartsWith(s, prefix) == Len(s) >= Len(prefix) /\ SubSeq(s, 1, Len(prefix)) = prefix
\* s.trim()
Trim(s) ==
  LET a == SpacesEnd(s, 0)
  IN IF a = Len(s) THEN <<>> ELSE Slice(s, a, SpacesStart(s, Len(s)))
classKeyword == <<"c", "l", "a", "s", "s">>
\* /^class\s+/.test(s)
startsClass(s) == StartsWith(s, classKeyword \o <<" ">>)
\* new RegExp(`^class\s+${name}\s*\(`).test(s)
classRegex(s, name) ==
  /\ startsClass(s)
  /\ LET a == SpacesEnd(s, Len(classKeyword))
         b == SpacesEnd(s, a + Len(name))
     IN a + Len(name) <= Len(s) /\ Slice(s, a, a + Len(name)) = name
        /\ b < Len(s) /\ At(s, b) = "("
\* new RegExp(`^\s*${fieldName}\s*:`).test(s)
fieldRegex(s, fieldName) ==
  LET a == SpacesEnd(s, 0)
      b == SpacesEnd(s, a + Len(fieldName))
  IN a + Len(fieldName) <= Len(s) /\ Slice(s, a, a + Len(fieldName)) = fieldName
     /\ b < Len(s) /\ At(s, b) = ":"
\* s.indexOf(name)
IndexOf(s, name) ==
  CHOOSE i \in 0..Len(s) :
    /\ i + Len(name) <= Len(s) /\ Slice(s, i, i + Len(name)) = name
    /\ \A j \in 0..(i - 1) : Slice(s, j, j + Len(name)) # name
FirstOf(S) == CHOOSE i \in S : \A j \in S : i <= j

\* mutant: the scan for the field does not stop at the next class
findField_PastNextClass(lines, sigName, fieldName) ==
  LET classLines == {i \in 0..(Len(lines) - 1) : classRegex(Trim(lines[i + 1]), sigName)}
      classLineNum == IF classLines = {} THEN -1 ELSE FirstOf(classLines)
      hits == {i \in (classLineNum + 1)..(Len(lines) - 1) : fieldRegex(lines[i + 1], fieldName)}
  IN IF classLineNum < 0 \/ hits = {} THEN Nothing
     ELSE [result |-> "location", line |-> FirstOf(hits),
           character |-> IndexOf(lines[FirstOf(hits) + 1], fieldName)]
\* definition.ts 38-66: the re-scan of the text for the field of a signature
findField(lines, sigName, fieldName) ==
  LET classLines == {i \in 0..(Len(lines) - 1) : classRegex(Trim(lines[i + 1]), sigName)}
      classLineNum == IF classLines = {} THEN -1 ELSE FirstOf(classLines)
      after == (classLineNum + 1)..(Len(lines) - 1)
      stops == {i \in after : startsClass(Trim(lines[i + 1]))}
      hits == {i \in after : /\ fieldRegex(lines[i + 1], fieldName)
                             /\ \A j \in stops : i < j}
  IN IF classLineNum < 0 \/ hits = {} THEN Nothing
     ELSE [result |-> "location", line |-> FirstOf(hits),
           character |-> IndexOf(lines[FirstOf(hits) + 1], fieldName)]

\* definition.ts 11-73: what provideDefinition returns
DefinitionOf(info, lines, pos) ==
  IF info = Absent THEN Nothing
  ELSE
    LET line == lines[pos.line + 1]
        range == getWordRangeAtPosition(line, pos.character)
        word == Slice(line, range.start, range.end)
        varName == attrAccessMatch(Slice(line, 0, pos.character))
        pred == IF varName = NoName THEN Undefined ELSE Get(info.predictions, varName)
        sig == IF Truthy(pred) THEN SignatureOf(info, pred) ELSE Undefined
    IN IF range = NoRange \/ ~Truthy(sig) THEN Nothing
       ELSE IF sig = Inherited THEN TypeError
       ELSE IF Truthy(Find(sig.outputs, word)) THEN findField(lines, sig.name, word)
       ELSE Nothing

\* ------------------------------------------------------------ highlight
\* \bpattern\b matches at column i of s
matchesAt(s, i, pattern) ==
  /\ i + Len(pattern) <= Len(s)
  /\ Slice(s, i, i + Len(pattern)) = pattern
  /\ (i = 0 \/ ~IsWordChar(At(s, i - 1)))
  /\ (i + Len(pattern) = Len(s) \/ ~IsWordChar(At(s, i + Len(pattern))))
\* the columns where regex.exec finds the pattern, searching on from the end
\* of the match before (the "g" flag)
RECURSIVE execAll(_, _, _)
execAll(s, pattern, lastIndex) ==
  LET found == {i \in lastIndex..Len(s) : matchesAt(s, i, pattern)}
  IN IF found = {} THEN {}
     ELSE {FirstOf(found)} \cup execAll(s, pattern, FirstOf(found) + Len(pattern))

\* documentHighlight.ts 39-64: the ranges of the field name in every match
highlightRanges(lines, varName, fieldName) ==
  {[line |-> lineNum, start |-> i + Len(varName) + 1,
    end |-> i + Len(varName) + 1 + Len(fieldName)] :
     <<lineNum, i>> \in
       UNION {{<<n, i>> : i \in execAll(lines[n + 1], varName \o <<".">> \o fieldName, 0)} :
                n \in 0..(Len(lines) - 1)}}

\* documentHighlight.ts 11-65: what provideDocumentHighlights returns
HighlightsOf(info, lines, pos) ==
  IF info = Absent THEN Nothing
  ELSE
    LET line == lines[pos.line + 1]
        range == getWordRangeAtPosition(line, pos.character)
        word == Slice(line, range.start, range.end)
        varName == attrAccessMatch(Slice(line, 0, pos.character))
        pred == IF varName = NoName THEN Undefined ELSE Get(info.predictions, varName)
        sig == IF Truthy(pred) THEN SignatureOf(info, pred) ELSE Undefined
    IN IF range = NoRange \/ ~Truthy(sig) THEN Nothing
       ELSE IF sig = Inherited THEN TypeError
       ELSE IF Truthy(Find(sig.outputs, word))
            THEN [result |-> "highlights", ranges |-> highlightRanges(lines, varName, word)]
            ELSE Nothing

\* ------------------------------------------------ decorations and tokens
\* /\b(\w+)\.(\w+)\b/ matches at column i of s: a whole word, a dot, a whole word
pairAt(s, i) ==
  /\ i < Len(s) /\ IsWordChar(At(s, i))
  /\ (i = 0 \/ ~IsWordChar(At(s, i - 1)))
  /\ LET e == WordEnd(s, i)
     IN e + 1 < Len(s) /\ At(s, e) = "." /\ IsWordChar(At(s, e + 1))
\* the matches regex.exec finds on a line, each search going on from the end
\* of the match before
RECURSIVE scanAll(_, _)
scanAll(s, lastIndex) ==
  LET found == {i \in lastIndex..(Len(s) - 1) : pairAt(s, i)}
  IN IF found = {} THEN {}
     ELSE LET i == FirstOf(found)
              e == WordEnd(s, i)
              e2 == WordEnd(s, e + 1)
          IN {[index |-> i, varName |-> Slice(s, i, e), fieldName |-> Slice(s, e + 1, e2)]}
               \cup scanAll(s, e2)

\* the loop computeRanges and buildTokens share: every match whose first word
\* is a prediction and whose second word is an output field of its signature
fieldRanges(info, lines) ==
  IF info = Absent THEN Nothing
  ELSE
    LET matches == UNION {{[line |-> n, match |-> m] : m \in scanAll(lines[n + 1], 0)} :
                            n \in 0..(Len(lines) - 1)}
        sigOf(m) == LET pred == Get(info.predictions, m.varName)
                    IN IF Truthy(pred) THEN SignatureOf(info, pred) ELSE Undefined
        marked == {x \in matches :
                     /\ Truthy(sigOf(x.match))
                     /\ Truthy(Find(sigOf(x.match).outputs, x.match.fieldName))}
    IN IF \E x \in matches : sigOf(x.match) = Inherited THEN TypeError
       ELSE [result |-> "ranges",
             ranges |-> {[line |-> x.line,
                          start |-> x.match.index + Len(x.match.varName) + 1,
                          end |-> x.match.index + Len(x.match.varName) + 1
                                    + Len(x.match.fieldName)] : x \in marked}]
\* part_003 31-72
computeRanges(info, lines) == fieldRanges(info, lines)
\* semanticTokens.ts 20-77
buildTokens(info, lines) == fieldRanges(info, lines)

\* ------------------------------------------------- the texts of the requests
RECURSIVE Repeat(_, _)
Repeat(s, n) == IF n = 0 THEN <<>> ELSE s \o Repeat(s, n - 1)

\* identifiers before a dot: the predictions, an unknown name and a longer
\* identifier that starts like a prediction; identifiers after it: the output
\* fields f and h, the input field q, or nothing typed yet
AttrVars == {<<"p">>, <<"h">>, <<"r">>, <<"g">>, <<"u">>, <<"x">>, <<"p", "2">>}
AttrNames == {<<"f">>, <<"h">>, <<"q">>, <<>>}
AttrAccess == {v \o <<".">> \o f : v \in AttrVars, f \in AttrNames}
\* an attribute access that follows another one: x.p.f, h.h.h
Chained == {a \o <<".">> \o v \o <<".">> \o f :
              a \in {<<"x">>, <<"h">>}, v \in {<<"p">>, <<"h">>}, f \in {<<"f">>, <<"h">>}}
\* the same access several times on a line
Repeated == {e \o Repeat(<<",">> \o e, n) :
               e \in {<<"p", ".", "f">>, <<"p", "2", ".", "f">>, <<"h", ".", "h">>}, n \in 1..(MaxRepeat - 1)}
\* calls: the modules, an unknown callee, and what is typed after the "("
Callees == {<<"m">>, <<"r">>, <<"z">>, <<"d">>, <<"e">>, <<"P">>}
ArgTexts == {Repeat(<<"x", ",">>, n) : n \in 0..MaxCommas}
              \cup {<<"q", "=", "1">>, <<"q", "=">>, <<"q", "=", "f", "(", "c", ")", ",">>, <<"q", "=", "[", "1", ",", "1", "]">>, <<"p", ".", "q", "=", "=", "1">>,
                    <<"c", "=", "f", "(", "x", ")", ",", "q", "=", "1", ")">>}
Calls == {c \o <<"(">> \o a : c \in Callees, a \in ArgTexts}
\* a call whose result is assigned
Assigned == {<<"p", " ", "=", " ", "P", "(", "Q", ")", "(", "q", "=", "1", ")">>,
             <<"p", "=", "P", "(", "Q", ")", "(", "q", "=", "1", ")">>, <<"p", "=", "P", "(", "q", "=", "1", ")">>, <<"p", " ", "=", " ", "P", " ", "(", "q", " ", "=", "1", ")">>, <<"x", "=", "P", "(", "q", "=", "1", ")">>, <<"p", "=", "m", "(", "q", "=", "1", ")">>}
Lines == AttrAccess \cup Chained \cup Repeated \cup Calls \cup Assigned

\* a text: one line, or a first line, blank lines and a last line, or a
\* class body in front of a line
FirstLines == {<<"p", ".", "f">>, <<"p", "2", ".", "f">>, <<"m", "(">>, <<"f", "(">>}
ClassBody == <<<<"c", "l", "a", "s", "s", " ", "S", "(", "x", ")", ":">>, <<" ", "f", ":", " ", "x">>>>
\* a keyword argument on a line of its own, the call opened some lines above
\* class bodies: the field under the class; the field before the class and
\* under the next class only; an indented class with the field twice; a class
\* with a longer name
ClassBodies ==
  {ClassBody,
   <<<<"f", ":", " ", "x">>, <<"c", "l", "a", "s", "s", " ", "S", "(", "x", ")", ":">>, <<"c", "l", "a", "s", "s", " ", "T", "(", "x", ")", ":">>, <<" ", "f", ":", " ", "x">>>>,
   <<<<" ", "c", "l", "a", "s", "s", " ", " ", "S", " ", "(", "x", ")", ":">>, <<>>, <<"f", " ", ":", "x">>, <<" ", "f", ":", " ", "x">>>>,
   <<<<"c", "l", "a", "s", "s", " ", "S", "2", "(", "x", ")", ":">>, <<" ", "f", ":", " ", "x">>>>}
Lookback == {<<a>> \o Repeat(<< <<>> >>, n) \o <<<<"q", "=", "1", ")">>>> :
               a \in {<<"m", "(">>, <<"f", "(">>}, n \in {0, lookbackLines - 1, lookbackLines}}
Documents ==
  {<<l>> : l \in Lines}
    \cup Lookback
    \cup {<<a>> \o Repeat(<< <<>> >>, n) \o <<l>> : a \in FirstLines, l \in Lines, n \in 0..MaxBlank}
    \cup {b \o <<l>> : b \in ClassBodies, l \in AttrAccess}
Positions(lines) ==
  UNION {{[line |-> n, character |-> ch] : ch \in 0..Len(lines[n + 1])} :
           n \in 0..(Len(lines) - 1)}

VARIABLES
  pythonPath,   \* let pythonPath: string | null
  initPc,       \* position of initPython
  notified,     \* the error notification of initPython was shown
  openDocs,     \* vscode.workspace.textDocuments
  version,      \* content of each Python file on disk
  pending,      \* the map pending: "unset", or the state of the handle it holds
  timers,       \* live debounce timers of each document: ticks that remain
  inflight,     \* introspector processes that run, in start order
  cache,        \* the map cache
  logDirty,     \* the output channel holds lines its document has not announced
  unhandled,    \* an exception escaped introspectDocument
  served,       \* the last editor request and the snapshot it was answered from
  nEvents,      \* external events so far
  \* history, kept for the Python documents
  age,          \* ticks since the last scheduleIntrospect call of the document
  nCalls,       \* scheduleIntrospect calls of the document
  nInv,         \* invocations started for the document
  chain,        \* the current run of calls less than a quiet period apart: its calls,
                \* the invocations it started, and whether the path was resolved at its last call
  allSpaced,    \* every call so far came more than a quiet period after the previous
  lastDone,     \* the invocation of the document that completed most recently
  newestDone,   \* what the invocation of the document that started last has left
  nFired,       \* update events fired for the document
  nStored,      \* completions that left their result in the cache
  \* the editor request a provider is called with, and what it returns
  text,         \* doc.getText(): the lines of the document the request is about
  position,     \* the cursor: [line, character], both counted from 0
  reply,        \* what the provider returned
  \* the output-field decorations of the visible editor
  editor,       \* the document the visible editor shows while it is open, or NoEditor
  painted,      \* the cache entry the painted ranges were computed from (Absent: none painted)
  nudges        \* the delayed refreshes that are pending: the ticks each has left

vars == <<pythonPath, initPc, notified, openDocs, version, pending, timers, inflight,
          cache, logDirty, unhandled, served, nEvents,
          age, nCalls, nInv, chain, allSpaced, lastDone, newestDone, nFired, nStored,
          text, position, reply, editor, painted, nudges>>

queryVars == <<text, position, reply>>
paintVars == <<editor, painted, nudges>>
histVars == <<age, nCalls, nInv, chain, allSpaced, lastDone, newestDone, nFired, nStored>>

NoChain == [calls |-> 0, started |-> 0, ok |-> FALSE]
NoneDone == [class |-> "none", result |-> Absent, replaced |-> "nothing", fired |-> FALSE, seen |-> Absent]
NoRequest == [kind |-> "none", doc |-> "none", info |-> Absent, busy |-> FALSE]
NoReply == [provider |-> "none"]

Start ==
  /\ pythonPath = Null
  /\ initPc = "getPythonPath"
  /\ notified = FALSE
  /\ openDocs \in {{}, {"a.py"}}
  /\ version = [d \in PyDocs |-> 1]
  /\ pending = [d \in Docs |-> "unset"]
  /\ timers = [d \in Docs |-> <<>>]
  /\ inflight = <<>>
  /\ cache = [d \in Docs |-> Absent]
  /\ logDirty = TRUE
  /\ unhandled = FALSE
  /\ served = NoRequest
  /\ nEvents = 0
  /\ age = [d \in PyDocs |-> 0]
  /\ nCalls = [d \in PyDocs |-> 0]
  /\ nInv = [d \in PyDocs |-> 0]
  /\ chain = [d \in PyDocs |-> NoChain]
  /\ allSpaced = [d \in PyDocs |-> TRUE]
  /\ lastDone = [d \in PyDocs |-> NoneDone]
  /\ newestDone = [d \in PyDocs |-> [state |-> "none"]]
  /\ nFired = [d \in PyDocs |-> 0]
  /\ nStored = [d \in PyDocs |-> 0]
  /\ text = <<>>
  /\ position = [line |-> 0, character |-> 0]
  /\ reply = NoReply
  /\ painted = Absent
  /\ nudges = {}

\* The documents are open and none is shown in a visible editor.
Init == Start /\ editor = NoEditor

\* ------------------------------------------------------------- decorations
\* refreshEditor(editor): the ranges are computed from the cache entry c holds
\* for the editor's document and painted; without an entry, or without the
\* editor, nothing is painted.
refreshEditor(open, c) == IF editor \in open THEN CacheGet(c, editor) ELSE Absent
\* refreshEditor(e); setTimeout(() => refreshEditor(e), 300) for the visible editor
refreshAndNudge(open, c) ==
  /\ painted' = refreshEditor(open, c)
  /\ nudges' = IF editor \in open THEN nudges \cup {Nudge} ELSE nudges
  /\ editor' = editor

\* ------------------------------------------------------ scheduleIntrospect
LiveTimer(d) == Len(timers[d]) > 0
\* A call starts a new run when it comes more than a quiet period after the
\* previous call (at exactly a quiet period: when the timer has already run).
NewChain(d) == nCalls[d] = 0 \/ age[d] > Quiet \/ (age[d] = Quiet /\ ~LiveTimer(d))

\* mutant: one timer slot shared by all documents; a call clears the timers of
\* the other documents too
scheduleIntrospect_OneSlot(S) ==
  /\ timers' = [d \in Docs |-> IF d \in S THEN Reschedule(timers[d], pending[d])
                                ELSE IF S # {} THEN <<>> ELSE timers[d]]
  /\ pending' = [d \in Docs |-> IF d \in S THEN "live" ELSE pending[d]]
  /\ age' = [d \in PyDocs |-> IF d \in S THEN 0 ELSE age[d]]
  /\ nCalls' = [d \in PyDocs |-> IF d \in S THEN nCalls[d] + 1 ELSE nCalls[d]]
  /\ chain' = [d \in PyDocs |->
       IF d \notin S THEN chain[d]
       ELSE IF NewChain(d)
            THEN [calls |-> 1, started |-> 0, ok |-> pythonPath # Null]
            ELSE [calls |-> chain[d].calls + 1, started |-> chain[d].started,
                  ok |-> pythonPath # Null]]
  /\ allSpaced' = [d \in PyDocs |->
       IF d \notin S THEN allSpaced[d]
       ELSE pythonPath # Null /\ (nCalls[d] = 0 \/ (allSpaced[d] /\ age[d] > Quiet))]
\* scheduleIntrospect(doc) for every doc of S, with its bookkeeping.
scheduleIntrospect(S) ==
  /\ timers' = [d \in Docs |-> IF d \in S THEN Reschedule(timers[d], pending[d]) ELSE timers[d]]
  /\ pending' = [d \in Docs |-> IF d \in S THEN "live" ELSE pending[d]]
  /\ age' = [d \in PyDocs |-> IF d \in S THEN 0 ELSE age[d]]
  /\ nCalls' = [d \in PyDocs |-> IF d \in S THEN nCalls[d] + 1 ELSE nCalls[d]]
  /\ chain' = [d \in PyDocs |->
       IF d \notin S THEN chain[d]
       ELSE IF NewChain(d)
            THEN [calls |-> 1, started |-> 0, ok |-> pythonPath # Null]
            ELSE [calls |-> chain[d].calls + 1, started |-> chain[d].started,
                  ok |-> pythonPath # Null]]
  /\ allSpaced' = [d \in PyDocs |->
       IF d \notin S THEN allSpaced[d]
       ELSE pythonPath # Null /\ (nCalls[d] = 0 \/ (allSpaced[d] /\ age[d] > Quiet))]

\* ------------------------------------------------------------- initPython
ResolvePath ==
  /\ initPc = "getPythonPath"
  /\ \E p \in PythonPaths : pythonPath' = p
  /\ initPc' = "version"
  /\ logDirty' = TRUE
  /\ UNCHANGED queryVars
  /\ UNCHANGED paintVars
  /\ UNCHANGED <<notified, openDocs, version, pending, timers, inflight, cache, unhandled,
                 served, nEvents>>
  /\ UNCHANGED histVars

VersionOk ==
  /\ initPc = "version"
  /\ initPc' = "done"
  /\ logDirty' = TRUE
  /\ scheduleIntrospect(openDocs)
  /\ UNCHANGED queryVars
  /\ UNCHANGED paintVars
  /\ UNCHANGED <<pythonPath, notified, openDocs, version, inflight, cache, unhandled,
                 served, nEvents>>
  /\ UNCHANGED <<nInv, lastDone, newestDone, nFired, nStored>>

\* mutant: the failed check puts the path back to null
VersionFails_ResetsPath ==
  /\ initPc = "version"
  /\ initPc' = "done"
  /\ logDirty' = TRUE
  /\ notified' = TRUE
  /\ pythonPath' = Null
  /\ UNCHANGED queryVars
  /\ UNCHANGED paintVars
  /\ UNCHANGED <<openDocs, version, pending, timers, inflight, cache, unhandled,
                 served, nEvents>>
  /\ UNCHANGED histVars

VersionFails ==
  /\ initPc = "version"
  /\ initPc' = "done"
  /\ logDirty' = TRUE
  /\ notified' = TRUE
  /\ UNCHANGED queryVars
  /\ UNCHANGED paintVars
  /\ UNCHANGED <<pythonPath, openDocs, version, pending, timers, inflight, cache, unhandled,
                 served, nEvents>>
  /\ UNCHANGED histVars

\* ------------------------------------------------- document life-cycle events
OpenDocument(d) ==
  /\ nEvents < MaxEvents
  /\ d \notin openDocs
  /\ openDocs' = openDocs \cup {d}
  /\ nEvents' = nEvents + 1
  /\ scheduleIntrospect({d})
  /\ UNCHANGED queryVars
  /\ IF d = editor THEN refreshAndNudge(openDocs', cache) ELSE UNCHANGED paintVars
  /\ UNCHANGED <<pythonPath, initPc, notified, version, inflight, cache, logDirty, unhandled,
                 served>>
  /\ UNCHANGED <<nInv, lastDone, newestDone, nFired, nStored>>

SaveDocument(d) ==
  /\ nEvents < MaxEvents
  /\ d \in openDocs \cap PyDocs
  /\ \E v \in {version[d], Min(version[d] + 1, MaxVersion)} : version' = [version EXCEPT ![d] = v]
  /\ nEvents' = nEvents + 1
  /\ scheduleIntrospect({d})
  /\ UNCHANGED queryVars
  /\ UNCHANGED paintVars
  /\ UNCHANGED <<pythonPath, initPc, notified, openDocs, inflight, cache, logDirty, unhandled,
                 served>>
  /\ UNCHANGED <<nInv, lastDone, newestDone, nFired, nStored>>

ChangeDocument(d) ==
  /\ nEvents < MaxEvents
  /\ d \in openDocs \cap PyDocs
  /\ nEvents' = nEvents + 1
  /\ scheduleIntrospect({d})
  /\ UNCHANGED queryVars
  /\ IF d = editor THEN refreshAndNudge(openDocs, cache) ELSE UNCHANGED paintVars
  /\ UNCHANGED <<pythonPath, initPc, notified, openDocs, version, inflight, cache, logDirty,
                 unhandled, served>>
  /\ UNCHANGED <<nInv, lastDone, newestDone, nFired, nStored>>

\* The output channel announces the appended lines as a change of its document.
OutputChanged ==
  /\ logDirty
  /\ OutputDoc \in openDocs
  /\ logDirty' = FALSE
  /\ scheduleIntrospect({OutputDoc})
  /\ UNCHANGED queryVars
  /\ UNCHANGED paintVars
  /\ UNCHANGED <<pythonPath, initPc, notified, openDocs, version, inflight, cache, unhandled,
                 served, nEvents>>
  /\ UNCHANGED <<nInv, lastDone, newestDone, nFired, nStored>>

\* No handler is registered for the close event.
CloseDocument(d) ==
  /\ nEvents < MaxEvents
  /\ d \in openDocs
  /\ openDocs' = openDocs \ {d}
  /\ nEvents' = nEvents + 1
  /\ UNCHANGED queryVars
  /\ painted' = IF d = editor THEN Absent ELSE painted
  /\ UNCHANGED <<editor, nudges>>
  /\ UNCHANGED <<pythonPath, initPc, notified, version, pending, timers, inflight, cache,
                 logDirty, unhandled, served>>
  /\ UNCHANGED histVars

\* ------------------------------------------------------------------- time
Tick ==
  /\ \A d \in Docs : \A i \in 1..Len(timers[d]) : timers[d][i] > 0
  /\ timers' = [d \in Docs |-> [i \in 1..Len(timers[d]) |-> timers[d][i] - 1]]
  /\ age' = [d \in PyDocs |-> IF nCalls[d] = 0 THEN 0 ELSE Min(age[d] + 1, Quiet + 1)]
  /\ UNCHANGED queryVars
  /\ 0 \notin nudges
  /\ nudges' = {n - 1 : n \in nudges}
  /\ UNCHANGED <<editor, painted>>
  /\ UNCHANGED <<pythonPath, initPc, notified, openDocs, version, pending, inflight, cache,
                 logDirty, unhandled, served, nEvents>>
  /\ UNCHANGED <<nCalls, nInv, chain, allSpaced, lastDone, newestDone, nFired, nStored>>

\* --------------------------------------------------------- introspectDocument
\* mutant: the interpreter path is not examined
Guard_NoPathCheck(d, path) == IF languageId(d) # "python" THEN "return" ELSE "spawn"
\* mutant: the language is examined after the path, past the log line
Guard_LogsForAnyDocument(d, path) ==
  IF languageId(d) # "python" THEN "skip"
  ELSE IF path = Null THEN "skip"
  ELSE "spawn"
\* What the timer callback does before it suspends on the process.
Guard(d, path) ==
  IF languageId(d) # "python" THEN "return"
  ELSE IF path = Null THEN "skip"
  ELSE "spawn"

\* The debounce timer i of document d runs: introspectDocument(doc) up to the await.
TimerFires(d, i) ==
  /\ i \in 1..Len(timers[d])
  /\ timers[d][i] = 0
  /\ timers' = [timers EXCEPT ![d] = RunOnce(timers[d], i)]
  /\ pending' = [pending EXCEPT ![d] = IF i = Len(timers[d]) /\ pending[d] = "live" THEN "fired" ELSE pending[d]]
  /\ LET g == Guard(d, pythonPath) IN
       /\ logDirty' = IF g = "return" THEN logDirty ELSE TRUE
       /\ inflight' = IF g = "spawn"
                      THEN Append(inflight, [doc |-> d, ver |-> version[d], seq |-> nInv[d] + 1])
                      ELSE inflight
       /\ nInv' = IF g = "spawn" THEN [nInv EXCEPT ![d] = nInv[d] + 1] ELSE nInv
       /\ chain' = IF g = "spawn" THEN [chain EXCEPT ![d].started = chain[d].started + 1] ELSE chain
       /\ newestDone' = IF g = "spawn" THEN [newestDone EXCEPT ![d] = [state |-> "running"]] ELSE newestDone
  /\ UNCHANGED queryVars
  /\ UNCHANGED paintVars
  /\ UNCHANGED <<pythonPath, initPc, notified, openDocs, version, cache, unhandled,
                 served, nEvents>>
  /\ UNCHANGED <<age, nCalls, allSpaced, lastDone, nFired, nStored>>

\* How the run ended, told from the process alone.
ClassOf(o) ==
  IF o.exit # "ok" \/ ~o.json THEN "failed"
  ELSE IF o.keys # RequiredKeys THEN "lacksKey"
  ELSE "full"

\* The process of invocation i ends with outcome o: introspectDocument after the await.
Completes(i, o) ==
  /\ i \in 1..Len(inflight)
  /\ LET d == inflight[i].doc
         full == Introspection(d, inflight[i].ver)
         r == Settle(cache, d, full, o)
         decoded == IF ClassOf(o) = "failed" THEN Absent ELSE JSONparse(full, o.keys)
         left == [class |-> ClassOf(o),
                  result |-> decoded,
                  replaced |-> IF cache[d] = Absent THEN "nothing"
                               ELSE IF cache[d] = decoded THEN "same" ELSE "other",
                  fired |-> r.fired,
                  seen |-> r.seen]
     IN /\ cache' = r.cache
        /\ unhandled' = (unhandled \/ r.thrown)
        /\ nFired' = IF r.fired THEN [nFired EXCEPT ![d] = nFired[d] + 1] ELSE nFired
        /\ nStored' = IF r.cache[d] # Absent THEN [nStored EXCEPT ![d] = nStored[d] + 1] ELSE nStored
        /\ lastDone' = [lastDone EXCEPT ![d] = left]
        /\ newestDone' = IF inflight[i].seq = nInv[d]
                         THEN [newestDone EXCEPT ![d] = [state |-> "done", left |-> r.cache[d]]]
                         ELSE newestDone
  /\ inflight' = RemoveAt(inflight, i)
  /\ logDirty' = TRUE
  /\ UNCHANGED queryVars
  /\ IF Settle(cache, inflight[i].doc, Introspection(inflight[i].doc, inflight[i].ver), o).fired
     THEN refreshAndNudge(openDocs, cache')
     ELSE UNCHANGED paintVars
  /\ UNCHANGED <<pythonPath, initPc, notified, openDocs, version, pending, timers,
                 served, nEvents>>
  /\ UNCHANGED <<age, nCalls, nInv, chain, allSpaced>>

\* A delayed refresh of the visible editor runs.
NudgeFires ==
  /\ 0 \in nudges
  /\ nudges' = nudges \ {0}
  /\ painted' = refreshEditor(openDocs, cache)
  /\ editor' = editor
  /\ UNCHANGED queryVars
  /\ UNCHANGED <<pythonPath, initPc, notified, openDocs, version, pending, timers, inflight,
                 cache, logDirty, unhandled, served, nEvents>>
  /\ UNCHANGED histVars

\* ------------------------------------------------------------ editor requests
RequestKinds == {"hover", "completion", "signatureHelp", "definition", "highlight"}

\* A timer of the document is pending or an invocation for it is in flight.
Busy(d) == LiveTimer(d) \/ \E i \in 1..Len(inflight) : inflight[i].doc = d

\* mutant: a provider asks for an introspection of the document it serves
ServeRequest_Schedules(k, d) ==
  /\ nEvents < MaxEvents
  /\ d \in openDocs \cap PyDocs
  /\ served' = [kind |-> k, doc |-> d, info |-> CacheGet(cache, d), busy |-> Busy(d)]
  /\ nEvents' = nEvents + 1
  /\ logDirty' = TRUE
  /\ scheduleIntrospect({d})
  /\ UNCHANGED queryVars
  /\ UNCHANGED paintVars
  /\ UNCHANGED <<pythonPath, initPc, notified, openDocs, version, inflight, cache, unhandled>>
  /\ UNCHANGED <<nInv, lastDone, newestDone, nFired, nStored>>
\* A provider logs, reads the cache entry of the document and answers from it.
ServeRequest(k, d) ==
  /\ nEvents < MaxEvents
  /\ d \in openDocs \cap PyDocs
  /\ served' = [kind |-> k, doc |-> d, info |-> CacheGet(cache, d), busy |-> Busy(d)]
  /\ nEvents' = nEvents + 1
  /\ logDirty' = TRUE
  /\ UNCHANGED queryVars
  /\ UNCHANGED paintVars
  /\ UNCHANGED <<pythonPath, initPc, notified, openDocs, version, pending, timers, inflight,
                 cache, unhandled>>
  /\ UNCHANGED histVars

Next ==
  \/ ResolvePath
  \/ VersionOk
  \/ VersionFails
  \/ \E d \in Docs : OpenDocument(d)
  \/ \E d \in PyDocs : SaveDocument(d)
  \/ \E d \in PyDocs : ChangeDocument(d)
  \/ OutputChanged
  \/ \E d \in Docs : CloseDocument(d)
  \/ Tick
  \/ \E d \in Docs : \E i \in 1..Len(timers[d]) : TimerFires(d, i)
  \/ \E i \in 1..Len(inflight) : \E o \in ProcessOutcomes : Completes(i, o)
  \/ \E k \in RequestKinds : \E d \in PyDocs : ServeRequest(k, d)

Spec == Init /\ [][Next]_vars

\* The same program with EditorDoc shown in a visible editor while it is open:
\* its output fields are painted, and repainted by the delayed refreshes.
PaintInit == Start /\ editor = EditorDoc
PaintNext == Next \/ NudgeFires
PaintSpec == PaintInit /\ [][PaintNext]_vars

\* The event loop: time goes on, and a timer that is due runs.
LiveSpec ==
  /\ Spec
  /\ WF_vars(Tick)
  /\ WF_vars(\E d \in Docs : \E i \in 1..Len(timers[d]) : TimerFires(d, i))

\* ... and a process that was spawned ends, at the latest by its timeout.
RunSpec ==
  /\ LiveSpec
  /\ WF_vars(\E i \in 1..Len(inflight) : \E o \in ProcessOutcomes : Completes(i, o))

\* ------------------------------------------- the providers, request by request
\* A request arrives for the document a.py, which is open and introspected (or
\* has no cache entry), with some text and the cursor somewhere in it; the
\* provider logs, reads the cache entry and computes its answer from the text.
RequestDoc == "a.py"

QueryInit ==
  /\ pythonPath \in PythonPaths
  /\ initPc = "done"
  /\ notified = FALSE
  /\ openDocs = {RequestDoc}
  /\ version = [d \in PyDocs |-> 1]
  /\ pending = [d \in Docs |-> "unset"]
  /\ timers = [d \in Docs |-> <<>>]
  /\ inflight = <<>>
  /\ \E info \in QueryResults \cup {Absent} :
       /\ cache = [d \in Docs |-> IF d = RequestDoc THEN info ELSE Absent]
       /\ text \in IF info = Absent THEN {<<l>> : l \in AttrAccess}
                   ELSE IF info = Relocated
                        THEN {b \o <<l>> : b \in ClassBodies, l \in AttrAccess}
                        ELSE Documents
  /\ position \in Positions(text)
  /\ reply = NoReply
  /\ logDirty = TRUE
  /\ unhandled = FALSE
  /\ served = NoRequest
  /\ nEvents = 0
  /\ age = [d \in PyDocs |-> 0]
  /\ nCalls = [d \in PyDocs |-> 0]
  /\ nInv = [d \in PyDocs |-> 0]
  /\ chain = [d \in PyDocs |-> NoChain]
  /\ allSpaced = [d \in PyDocs |-> TRUE]
  /\ lastDone = [d \in PyDocs |-> NoneDone]
  /\ newestDone = [d \in PyDocs |-> [state |-> "none"]]
  /\ nFired = [d \in PyDocs |-> 0]
  /\ nStored = [d \in PyDocs |-> 0]
  /\ editor = NoEditor
  /\ painted = Absent
  /\ nudges = {}

\* what a provider leaves alone: everything but the log and its answer
requestRest == <<pythonPath, initPc, notified, openDocs, version, pending, timers, inflight,
                 cache, unhandled, served, nEvents, text, position, histVars, paintVars>>

provideHover ==
  /\ reply' = [provider |-> "hover",
               value |-> HoverOf(CacheGet(cache, RequestDoc), text, position)]
  /\ logDirty' = TRUE
  /\ UNCHANGED requestRest

provideCompletionItems ==
  /\ reply' = [provider |-> "completion",
               value |-> CompletionOf(CacheGet(cache, RequestDoc), text, position)]
  /\ logDirty' = TRUE
  /\ UNCHANGED requestRest

provideSignatureHelp ==
  /\ reply' = [provider |-> "signatureHelp",
               value |-> SignatureHelpOf(CacheGet(cache, RequestDoc), text, position)]
  /\ logDirty' = TRUE
  /\ UNCHANGED requestRest

provideDefinition ==
  /\ reply' = [provider |-> "definition",
               value |-> DefinitionOf(CacheGet(cache, RequestDoc), text, position)]
  /\ logDirty' = TRUE
  /\ UNCHANGED requestRest

provideDocumentHighlights ==
  /\ reply' = [provider |-> "highlight",
               value |-> HighlightsOf(CacheGet(cache, RequestDoc), text, position)]
  /\ logDirty' = TRUE
  /\ UNCHANGED requestRest

\* refreshEditor(editor) for the editor of the document: the ranges to paint
paintDecorations ==
  /\ reply' = [provider |-> "decorations",
               value |-> computeRanges(CacheGet(cache, RequestDoc), text)]
  /\ UNCHANGED logDirty
  /\ UNCHANGED requestRest

QueryNext ==
  \/ paintDecorations
  \/ provideHover
  \/ provideCompletionItems
  \/ provideSignatureHelp
  \/ provideDefinition
  \/ provideDocumentHighlights

QuerySpec == QueryInit /\ [][QueryNext]_vars

TypeOK ==
  /\ pythonPath \in PythonPaths \cup {Null}
  /\ \A d \in Docs : pending[d] \in {"unset", "live", "fired"}
  /\ \A d \in Docs : Len(timers[d]) <= 1

\* ===================================================================== claims

\* C1: calls for one Python document that each come less than the quiet period
\* after the previous one, the last of them made with the interpreter path
\* resolved, start exactly one invocation: never a second one, none before the
\* quiet period has elapsed since the last call, and one once it has elapsed.
C1_Coalesce ==
  \A d \in PyDocs : chain[d].ok =>
    /\ chain[d].started <= 1
    /\ (chain[d].started = 1 => age[d] >= Quiet)
    /\ (age[d] > Quiet => chain[d].started = 1)
C1_Witness ==
  \E d \in PyDocs : chain[d].ok /\ chain[d].calls >= 2 /\ chain[d].started = 1

\* C2: when every call for a Python document came more than the quiet period
\* after the previous one (path resolved), each call has started its own
\* invocation once the quiet period after it has elapsed.
C2_Spaced ==
  \A d \in PyDocs : (allSpaced[d] /\ nCalls[d] >= 1) =>
    /\ nInv[d] \in {nCalls[d] - 1, nCalls[d]}
    /\ (age[d] > Quiet => nInv[d] = nCalls[d])
C2_Witness ==
  \E d \in PyDocs : allSpaced[d] /\ nCalls[d] >= 2 /\ nInv[d] = nCalls[d]

\* C3: when the invocation that completed last for a document failed (the
\* process could not start, timed out, exited non-zero or printed no JSON) and
\* the cache held a result before, the cache has no entry for the document and
\* no exception has escaped.
C3_FailureEvicts ==
  \A d \in PyDocs : (lastDone[d].class = "failed" /\ lastDone[d].replaced # "nothing") =>
    (cache[d] = Absent /\ ~unhandled)
C3_Witness ==
  \E d \in PyDocs : lastDone[d].class = "failed" /\ lastDone[d].replaced # "nothing"
                     /\ cache[d] = Absent

\* C4: the update event of a document has fired once for each completion that
\* left its result in the cache; when it fired, a listener reading the cache
\* saw the new result; it did not fire for a failed invocation.
C4_UpdateEvent ==
  \A d \in PyDocs :
    /\ nFired[d] = nStored[d]
    /\ (lastDone[d].fired => (lastDone[d].seen = lastDone[d].result /\ lastDone[d].seen # Absent))
    /\ (lastDone[d].class = "failed" => ~lastDone[d].fired)
C4_Witness ==
  \E d \in PyDocs : lastDone[d].fired /\ nStored[d] >= 1 /\ cache[d] = lastDone[d].seen

\* C5: when a successful introspection stored B over a different entry A, a
\* cache read returns exactly B, with the signatures, modules and predictions
\* of B and no others.
C5_WholesaleReplace ==
  \A d \in PyDocs : (lastDone[d].class = "full" /\ lastDone[d].replaced = "other") =>
    /\ CacheGet(cache, d) = lastDone[d].result
    /\ \A k \in {"signatures", "modules", "predictions"} :
         DOMAIN CacheGet(cache, d)[k] = DOMAIN lastDone[d].result[k]
C5_Witness ==
  \E d \in PyDocs : lastDone[d].class = "full" /\ lastDone[d].replaced = "other"
                     /\ nStored[d] >= 2

\* C6: the cache entry of a document is what the invocation that completed
\* last for it left: absent when none has completed or it failed, its result
\* when it succeeded; this holds whatever the order in which they started.
C6_LastCompletedWins ==
  \A d \in PyDocs :
    CASE lastDone[d].class \in {"none", "failed"} -> cache[d] = Absent
      [] lastDone[d].class = "full" -> cache[d] = lastDone[d].result
      [] OTHER -> cache[d] \in {Absent, lastDone[d].result}
\* two invocations of one document were in flight together and the older one
\* completed last, leaving something else than the newer one
C6_Witness ==
  \E d \in PyDocs : /\ newestDone[d].state = "done"
                    /\ lastDone[d].class = "full"
                    /\ newestDone[d].left # cache[d]

\* C7: once no timer of a document is pending and no invocation for it is in
\* flight, the cache entry is what the invocation that started last left.
Quiescent(d) == ~LiveTimer(d) /\ \A i \in 1..Len(inflight) : inflight[i].doc # d
C7_EventuallyNewest ==
  \A d \in PyDocs : (Quiescent(d) /\ newestDone[d].state = "done") =>
    cache[d] = newestDone[d].left

C9_CloseEvicts ==
  [][\A d \in PyDocs : (d \in openDocs /\ d \notin openDocs') => CacheGet(cache', d) = Absent]_vars

\* C10: serving an editor request changes neither the cache nor the pending
\* timers nor the invocations in flight, starts no invocation, and answers
\* from the cache entry the document has at that moment.
C10_RequestIsPureRead ==
  [][served' # served =>
       /\ cache' = cache
       /\ pending' = pending
       /\ timers' = timers
       /\ inflight' = inflight
       /\ nInv' = nInv
       /\ served'.info = cache[served'.doc]]_vars
C10_Witness ==
  served.kind # "none" /\ served.busy

\* C11: a scheduleIntrospect call for one document leaves the pending timer
\* and the map entry of every other document as they are, and a document
\* whose last call was made with the path resolved has started its own
\* invocation once the quiet period after that call has elapsed, whatever
\* calls were made for other documents in between.
C11_OwnInvocation ==
  \A d \in PyDocs : (chain[d].ok /\ age[d] > Quiet) => nInv[d] >= 1
C11_OtherTimersKept ==
  \A a \in PyDocs : \A b \in PyDocs \ {a} :
    (nCalls'[a] = nCalls[a] + 1 /\ nCalls'[b] = nCalls[b]) =>
      (timers'[b] = timers[b] /\ pending'[b] = pending[b])
C11_Independent == []C11_OwnInvocation /\ [][C11_OtherTimersKept]_vars
\* calls for a.py and b.py at the same instant, each followed by its invocation
C11_Witness ==
  \A d \in PyDocs : nCalls[d] = 1 /\ nInv[d] = 1 /\ age[d] = Quiet

\* ------------------------------------------------ the request, as the claims see it
entry == CacheGet(cache, RequestDoc)
cursorLine == text[position.line + 1]
answered(provider) == reply.provider = provider /\ entry # Absent
\* the keys of a map of the entry; none when the document has no entry
Keys(map) == IF entry = Absent THEN {} ELSE DOMAIN entry[map]
\* the signature a module or prediction refers to is a key of the signatures map
Bound(x) == x.signature \in Keys("signatures")
BoundPredictions == {v \in Keys("predictions") : Bound(entry.predictions[v])}
BoundModules == {m \in Keys("modules") : Bound(entry.modules[m])}
DanglingPredictions == Keys("predictions") \ BoundPredictions
DanglingModules == Keys("modules") \ BoundModules
SignatureOfPrediction(v) == entry.signatures[entry.predictions[v].signature]
SignatureOfModule(m) == entry.signatures[entry.modules[m].signature]
Names_(fields) == {fields[i].name : i \in 1..Len(fields)}
FieldNamed(fields, n) == fields[CHOOSE i \in 1..Len(fields) : fields[i].name = n]
AnnotationOrAny(f) ==
  IF "annotation" \in DOMAIN f THEN (IF f.annotation = Null THEN "Any" ELSE f.annotation)
  ELSE "Any"
\* w stands at column i of line s as a whole word
OccursAt(s, i, w) ==
  /\ i + Len(w) <= Len(s)
  /\ \A k \in 1..Len(w) : s[i + k] = w[k]
  /\ (i = 0 \/ ~IsWordChar(s[i]))
  /\ (i + Len(w) = Len(s) \/ ~IsWordChar(s[i + Len(w) + 1]))
\* the cursor is in or at an end of the field name of an occurrence of v.f
CursorOnField(v, f) ==
  \E i \in 0..Len(cursorLine) :
    /\ OccursAt(cursorLine, i, v \o <<".">> \o f)
    /\ position.character \in (i + Len(v) + 1)..(i + Len(v) + 1 + Len(f))
\* the cursor is right after w, and w starts a word
CursorAfter(w) ==
  LET i == position.character - Len(w)
  IN /\ i >= 0
     /\ \A k \in 1..Len(w) : cursorLine[i + k] = w[k]
     /\ (i = 0 \/ ~IsWordChar(cursorLine[i]))
\* the cursor is on the identifier w
CursorOnWord(w) ==
  \E i \in 0..Len(cursorLine) :
    OccursAt(cursorLine, i, w) /\ position.character \in i..(i + Len(w))

\* C12: a request that touches a module or prediction whose signature name is
\* no key of the signatures map (hover on its identifier, completion after
\* its dot or its "(", signature help in its call, definition or highlight on
\* an attribute of it) returns nothing, and no request ends in an error.
C12_DanglingTolerated ==
  /\ reply.provider # "none" => reply.value # TypeError
  /\ \A x \in DanglingPredictions \cup DanglingModules :
       (answered("hover") /\ CursorOnWord(x)) => reply.value = Nothing
  /\ \A v \in DanglingPredictions :
       ((answered("completion") \/ answered("definition") \/ answered("highlight"))
          /\ CursorAfter(v \o <<".">>)) => reply.value = Nothing
  /\ \A m \in DanglingModules :
       ((answered("completion") \/ answered("signatureHelp")) /\ CursorAfter(m \o <<"(">>))
         => reply.value = Nothing

\* C13: for a prediction v bound to a signature of the map, completion right
\* after "v." lists the output fields of that signature, in order and nothing
\* else; with the cursor on a name after "v." that is no output field of the
\* signature (an input field, say), hover gives no attribute information and
\* definition and highlight give nothing.
AllFieldNames ==
  UNION {Names_(entry.signatures[k].inputs) \cup Names_(entry.signatures[k].outputs) :
           k \in Keys("signatures")}
C14_PredictionPath ==
  \A r \in BoundPredictions \cap Keys("modules") :
    \A f \in Names_(SignatureOfPrediction(r).outputs) \ (Keys("predictions") \cup Keys("modules")) :
      (answered("hover") /\ CursorOnField(r, f)) =>
        /\ reply.value.result = "hover"
        /\ reply.value.kind = "property"
        /\ reply.value.name = f
        /\ reply.value.annotation = AnnotationOrAny(FieldNamed(SignatureOfPrediction(r).outputs, f))
C14_Witness ==
  /\ answered("hover")
  /\ CursorOnField(<<"r">>, <<"f">>)
  /\ <<"r">> \in Keys("predictions") \cap Keys("modules")
  /\ reply.value.result = "hover"
  /\ reply.value.kind = "property"

\* C15: for every prediction v bound to a signature of the map and every
\* output field f of it, hover with the cursor anywhere in f of "v.f" gives
\* the field f with its annotation, "Any" when it has none.
C15_FieldInfo ==
  \A v \in BoundPredictions : \A f \in Names_(SignatureOfPrediction(v).outputs) :
    (answered("hover") /\ CursorOnField(v, f)) =>
      /\ reply.value.result = "hover"
      /\ reply.value.kind = "property"
      /\ reply.value.name = f
      /\ reply.value.annotation = AnnotationOrAny(FieldNamed(SignatureOfPrediction(v).outputs, f))

\* C16: for every module m bound to a signature of the map, completion with
\* the cursor right after "m(" returns one item "<name>=" for each input field
\* of the signature, in the order of declaration, and no other item.
C16_CallCompletion ==
  \A m \in BoundModules :
    (answered("completion") /\ CursorAfter(m \o <<"(">>)) =>
      /\ reply.value.result = "items"
      /\ [i \in 1..Len(reply.value.items) |-> reply.value.items[i].label]
           = [i \in 1..Len(SignatureOfModule(m).inputs) |->
                SignatureOfModule(m).inputs[i].name \o <<"=">>]
C16_Witness ==
  /\ answered("completion")
  /\ CursorAfter(<<"m", "(">>)
  /\ reply.value.result = "items"
  /\ Len(reply.value.items) = 2
  /\ reply.value.items[1].label = <<"q", "=">>

\* C17: with the cursor in the open argument list of a module m of the map,
\* after an argument that holds a closed group ("m(q=f(c),"), completion
\* returns the input fields of m and signature help is returned for m.
C17_NestedParens ==
  \A m \in BoundModules :
    Slice(cursorLine, 0, position.character) = m \o <<"(", "q", "=", "f", "(", "c", ")", ",">> =>
      /\ answered("completion") =>
           /\ reply.value.result = "items"
           /\ [i \in 1..Len(reply.value.items) |-> reply.value.items[i].label]
                = [i \in 1..Len(SignatureOfModule(m).inputs) |->
                     SignatureOfModule(m).inputs[i].name \o <<"=">>]
      /\ answered("signatureHelp") =>
           (reply.value.result = "signatureHelp" /\ reply.value.callee = m)

\* C18: the active parameter of a signature help is the number of commas typed
\* since the opening parenthesis outside any bracketed group, clamped to
\* 0..inputCount-1: never negative, never inputCount or more.
RECURSIVE TopLevelCommas(_, _)
TopLevelCommas(s, depth) ==
  IF s = <<>> THEN 0
  ELSE LET ch == Head(s)
       IN IF ch \in {"(", "["} THEN TopLevelCommas(Tail(s), depth + 1)
          ELSE IF ch \in {")", "]"} THEN TopLevelCommas(Tail(s), Max(0, depth - 1))
          ELSE (IF ch = "," /\ depth = 0 THEN 1 ELSE 0) + TopLevelCommas(Tail(s), depth)
C18_ActiveParameter ==
  (answered("signatureHelp") /\ reply.value.result = "signatureHelp") =>
    LET upToCursor == Slice(cursorLine, 0, position.character)
        typed == Slice(upToCursor, LastIndexOf(upToCursor, {"("}) + 1, Len(upToCursor))
        inputCount == Len(reply.value.parameters)
    IN /\ reply.value.activeParameter >= 0
       /\ inputCount > 0 => reply.value.activeParameter < inputCount
       /\ reply.value.activeParameter = Max(0, Min(TopLevelCommas(typed, 0), inputCount - 1))

\* C19: on the line "p = P(Q)(q=1)", P no module and p a prediction bound to a
\* signature with input field q, hover on q gives the input field q of that
\* signature.
C19_LhsFallback ==
  \A v \in BoundPredictions : \A q \in Names_(SignatureOfPrediction(v).inputs) :
    \A eq \in {<<"=">>, <<" ", "=", " ">>} :
      LET before == v \o eq \o <<"P", "(", "Q", ")", "(">>
      IN (answered("hover") /\ cursorLine = before \o q \o <<"=", "1", ")">>
            /\ position.character \in Len(before)..(Len(before) + Len(q))) =>
           /\ reply.value.result = "hover"
           /\ reply.value.kind = "parameter"
           /\ reply.value.name = q
           /\ reply.value.annotation = AnnotationOrAny(FieldNamed(SignatureOfPrediction(v).inputs, q))

\* C20: highlight with the cursor on f of "v.f" (v a prediction, f an output
\* field of its signature) returns one range for every whole-word occurrence
\* of "v.f" in the text, on whatever line, each range covering the characters
\* of f only; "v2.f" is no occurrence.
Occurrences(w) ==
  UNION {{<<n, i>> : i \in {j \in 0..Len(text[n + 1]) : OccursAt(text[n + 1], j, w)}} :
           n \in 0..(Len(text) - 1)}
C20_HighlightRanges ==
  \A v \in BoundPredictions : \A f \in Names_(SignatureOfPrediction(v).outputs) :
    (answered("highlight") /\ CursorOnField(v, f)) =>
      /\ reply.value.result = "highlights"
      /\ reply.value.ranges =
           {[line |-> o[1], start |-> o[2] + Len(v) + 1, end |-> o[2] + Len(v) + 1 + Len(f)] :
              o \in Occurrences(v \o <<".">> \o f)}

\* C21: when the invocation that completed last for a document printed JSON
\* that lacks one of the four required top-level keys, the cache holds no
\* entry for the document and that completion fired no update event.
C21_MissingKeyIsFailure ==
  \A d \in PyDocs : lastDone[d].class = "lacksKey" =>
    (cache[d] = Absent /\ ~lastDone[d].fired)

\* C22: an invocation starts only when a debounce timer of its document runs,
\* a timer is set only by a scheduleIntrospect call (an open, save or change
\* event or the startup pass), the completion of an invocation, failed or not,
\* sets no timer and starts no invocation, and a document never has more
\* invocations than scheduleIntrospect calls.
C22_Bounded == \A d \in PyDocs : nInv[d] <= nCalls[d]
C22_OnlyFromTimer ==
  \A d \in PyDocs :
    /\ nInv'[d] # nInv[d] =>
         (nInv'[d] = nInv[d] + 1 /\ Len(timers'[d]) = Len(timers[d]) - 1)
    /\ (timers'[d] # timers[d] /\ Len(timers'[d]) > 0
          /\ timers'[d][Len(timers'[d])] = Quiet) => nCalls'[d] = nCalls[d] + 1
    /\ Len(inflight') < Len(inflight) => (timers' = timers /\ nInv' = nInv)
C22_NoRetry == []C22_Bounded /\ [][C22_OnlyFromTimer]_vars
\* a failed invocation, and more than a quiet period later nothing has started
C22_Witness ==
  \E d \in PyDocs : /\ lastDone[d].class = "failed"
                    /\ Quiescent(d)
                    /\ age[d] > Quiet
                    /\ nInv[d] = 1 /\ nCalls[d] = 1

\* C23: while the invocation that completed last for the document of the
\* visible editor is a failed one, no decoration is painted in that editor:
\* what was computed from the evicted result is gone, at the latest when the
\* delayed refreshes that were pending at the failure have run.
C23_NothingAfterFailure ==
  (EditorDoc \in openDocs /\ lastDone[EditorDoc].class = "failed" /\ nudges = {})
    => painted = Absent

\* C24: a scheduleIntrospect call for a Python document made with the
\* interpreter path resolved (an open, save or change event, or the startup
\* pass) is eventually followed by an invocation for the document that starts
\* after the call.  (The run of calls the call belongs to has started no
\* invocation when the call is made; one is counted for it, or for a later
\* run, afterwards.)
C24_EventLeadsToInvocation ==
  \A d \in PyDocs :
    (nCalls[d] >= 1 /\ age[d] = 0 /\ LiveTimer(d) /\ chain[d].ok /\ chain[d].started = 0)
      ~> (chain[d].started >= 1)
\* b.py is scheduled by events only: one of them has led to an invocation
C24_Witness ==
  /\ nCalls["b.py"] = 1 /\ chain["b.py"].ok
  /\ nInv["b.py"] = 1 /\ chain["b.py"].started = 1

\* C25: with the cursor on f of "v.f", v a prediction and f an output field of
\* its signature, hover gives the field f even when the word f is itself a key
\* of predictions or of modules.
C25_AttributeFirst ==
  \A v \in BoundPredictions :
    \A f \in Names_(SignatureOfPrediction(v).outputs) \cap (Keys("predictions") \cup Keys("modules")) :
      (answered("hover") /\ CursorOnField(v, f)) =>
        (reply.value.result = "hover" /\ reply.value.kind = "property" /\ reply.value.name = f)

\* C26: hover on a keyword-argument name q takes as callee the identifier
\* before the nearest "(" left of q that is not closed again before q, on the
\* cursor line or at most lookbackLines lines above: in "m(c=f(x),q=1)" the
\* group of f is skipped and q is the input field q of the module m; in a call
\* opened on an earlier line q resolves when that line is in reach and not
\* beyond.
C26_NearestUnmatched ==
  \A m \in BoundModules : \A q \in Names_(SignatureOfModule(m).inputs) :
    LET closed == m \o <<"(", "c", "=", "f", "(", "x", ")", ",">>
        kw == q \o <<"=", "1", ")">>
        onWord(start) == position.character \in start..(start + Len(q))
        parameter == /\ reply.value.result = "hover"
                     /\ reply.value.kind = "parameter"
                     /\ reply.value.name = q
    IN answered("hover") =>
         /\ (cursorLine = closed \o kw /\ onWord(Len(closed))) => parameter
         /\ (/\ Len(text) > 1
             /\ text[1] = m \o <<"(">>
             /\ \A i \in 2..(Len(text) - 1) : text[i] = <<>>
             /\ position.line = Len(text) - 1
             /\ cursorLine = kw /\ onWord(0)) =>
              IF position.line <= lookbackLines THEN parameter ELSE reply.value = Nothing

\* C27: definition with the cursor on f of "v.f" (v a prediction of signature
\* S, f an output field of S) returns the first line that comes after the first
\* line starting "class S(" and before the next line starting "class", and
\* that consists of optional blanks, f, optional blanks and ":"; the column is
\* where f starts; without such a line nothing is returned; the coordinates
\* the cache entry reports for modules and predictions play no part.
Blank(s) == \A i \in 1..Len(s) : IsSpace(s[i])
ClassLine(l, name) ==
  \E a \in 0..Len(l) : \E b \in (a + Len(classKeyword) + 1)..Len(l) :
    \E c \in (b + Len(name))..(Len(l) - 1) :
      /\ Blank(Slice(l, 0, a))
      /\ Slice(l, a, a + Len(classKeyword)) = classKeyword
      /\ Blank(Slice(l, a + Len(classKeyword), b))
      /\ Slice(l, b, b + Len(name)) = name
      /\ Blank(Slice(l, b + Len(name), c))
      /\ At(l, c) = "("
AnyClassLine(l) ==
  \E a \in 0..Len(l) :
    /\ Blank(Slice(l, 0, a))
    /\ a + Len(classKeyword) < Len(l)
    /\ Slice(l, a, a + Len(classKeyword)) = classKeyword
    /\ IsSpace(At(l, a + Len(classKeyword)))
FieldAt(l, f, a) ==
  \E b \in (a + Len(f))..(Len(l) - 1) :
    /\ Blank(Slice(l, 0, a))
    /\ Slice(l, a, a + Len(f)) = f
    /\ Blank(Slice(l, a + Len(f), b))
    /\ At(l, b) = ":"
Targets(name, f) ==
  {t \in (0..(Len(text) - 1)) \X (0..rightOfWordChars) :
     /\ t[2] <= Len(text[t[1] + 1])
     /\ FieldAt(text[t[1] + 1], f, t[2])
     /\ \E c \in 0..(t[1] - 1) :
          /\ ClassLine(text[c + 1], name)
          /\ \A j \in 0..(c - 1) : ~ClassLine(text[j + 1], name)
          /\ \A j \in (c + 1)..t[1] : ~AnyClassLine(text[j + 1])}
C27_RescanOnly ==
  \A v \in BoundPredictions : \A f \in Names_(SignatureOfPrediction(v).outputs) :
    (answered("definition") /\ CursorOnField(v, f)) =>
      LET targets == Targets(SignatureOfPrediction(v).name, f)
      IN IF targets = {} THEN reply.value = Nothing
         ELSE /\ reply.value.result = "location"
              /\ <<reply.value.line, reply.value.character>> \in targets
              /\ \A t \in targets : reply.value.line <= t[1]
\* the field is found under an indented class, below a blank line, in the
\* first of two lines that declare it, with other coordinates in the cache
C27_Witness ==
  /\ answered("definition")
  /\ entry = Relocated
  /\ CursorOnField(<<"p">>, <<"f">>)
  /\ reply.value = [result |-> "location", line |-> 2, character |-> 0]

\* C28: every invocation in flight is for a Python document and was spawned
\* with the interpreter path resolved; a timer that runs for a Python document
\* with the path resolved spawns one invocation, and a timer that runs for
\* another document, or with the path null, spawns none, leaves the cache as
\* it is and fires no update event.
C28_InFlightArePython ==
  \A i \in 1..Len(inflight) : languageId(inflight[i].doc) = "python" /\ pythonPath # Null
C28_TimerRun ==
  \A d \in Docs :
    Len(timers'[d]) < Len(timers[d]) =>
      IF languageId(d) = "python" /\ pythonPath # Null
      THEN /\ Len(inflight') = Len(inflight) + 1
           /\ inflight'[Len(inflight')].doc = d
      ELSE /\ inflight' = inflight
           /\ cache' = cache
           /\ nFired' = nFired
           /\ nInv' = nInv
C28_SpawnGuard == []C28_InFlightArePython /\ [][C28_TimerRun]_vars
\* the timer of the log document has run while a.py has a cache entry
C28_Witness ==
  /\ pending[OutputDoc] = "fired"
  /\ inflight = <<>>
  /\ cache["a.py"] # Absent

\* C29: for every text and cache entry the ranges of the decorations, and of
\* the semantic tokens, are the union over the predictions v and the output
\* fields f of their signatures of the ranges highlight gives for "v.f";
\* so also in "x.p.f", where p follows another attribute access.  (Stated for
\* the texts on which computeRanges returns; a reference to a signature name
\* that is inherited makes it throw, see C12.)
C29_SameAsHighlight ==
  LET expected ==
        UNION {highlightRanges(text, x[1], x[2]) :
                 x \in {y \in BoundPredictions \X AllFieldNames :
                          y[2] \in Names_(SignatureOfPrediction(y[1]).outputs)}}
  IN (answered("decorations") /\ entry # Absent /\ reply.value # TypeError) =>
       /\ reply.value = [result |-> "ranges", ranges |-> expected]
       /\ buildTokens(entry, text) = reply.value

\* C30: the timer that runs for the log document writes no log line and spawns
\* no invocation, so the change events that log lines raise come to an end:
\* from some moment on no timer is live and no invocation is in flight.
C30_LogTimerSilent ==
  Len(timers'[OutputDoc]) < Len(timers[OutputDoc]) =>
    (logDirty' = logDirty /\ inflight' = inflight /\ cache' = cache)
AllQuiet == inflight = <<>> /\ \A d \in Docs : ~LiveTimer(d)
C30_LogSettles == [][C30_LogTimerSilent]_vars /\ <>[]AllQuiet
\* the log document was scheduled by a log line, its timer has run, and
\* nothing has been logged since
C30_Witness ==
  /\ pending[OutputDoc] = "fired"
  /\ ~logDirty
  /\ AllQuiet

\* C31: the interpreter path is set before the `--version` check and no step
\* changes it once it is set; the step that shows the error notification
\* schedules nothing (the pass over the open documents is skipped); and with
\* the notification shown a timer of a Python document that runs spawns an
\* invocation, so every open, save or change of a Python document made then
\* is followed by an invocation of it.
C31_PathBeforeCheck == initPc # "getPythonPath" => pythonPath # Null
C31_Step ==
  /\ pythonPath # Null => pythonPath' = pythonPath
  /\ (~notified /\ notified') =>
       /\ timers' = timers
       /\ pending' = pending
       /\ inflight' = inflight
       /\ nCalls' = nCalls
  /\ \A d \in PyDocs :
       (notified /\ Len(timers'[d]) < Len(timers[d])) =>
         /\ Len(inflight') = Len(inflight) + 1
         /\ inflight'[Len(inflight')].doc = d
C31_EventsStillSpawn ==
  /\ []C31_PathBeforeCheck
  /\ [][C31_Step]_vars
  /\ \A d \in PyDocs :
       (notified /\ nCalls[d] >= 1 /\ age[d] = 0 /\ LiveTimer(d) /\ chain[d].started = 0)
         ~> (chain[d].started >= 1)
\* the notification was shown, a.py was open throughout and was scheduled
\* once, by an event and not by the startup pass, and its invocation runs
C31_Witness ==
  /\ notified
  /\ pythonPath # Null
  /\ "a.py" \in openDocs
  /\ nCalls["a.py"] = 1
  /\ \E i \in 1..Len(inflight) : inflight[i].doc = "a.py"

====
